---------------------------- MODULE Spec2Model ----------------------------
(***************************************************************************)
(* A model of youtube_transcript_scraper.py.                               *)
(*                                                                         *)
(* Spec       get_transcript: track selection, the json3 lookup, the       *)
(*            retried subtitle fetch, the exception handlers, the decoder. *)
(* SpecFetch  the retry loop of session.get alone, with the sequence of    *)
(*            per-attempt outcomes kept as a history variable.             *)
(* SpecDecode the decoder on every payload of the bounds.                  *)
(* SpecUrl    extract_video_id on URLs written from their parts and on     *)
(*            every short string of tokens.                                *)
(* SpecItems  extract_items_from_transcript on bare and fenced responses.  *)
(* SpecSession the Streamlit script: one action per run of the script.     *)
(*                                                                         *)
(* Text is a sequence of one-character strings.  A Python value that may   *)
(* be missing (a dict key, None) is a record [some, val].                  *)
(***************************************************************************)
EXTENDS Integers, Sequences, FiniteSets, TLC

VARIABLES
    pc,            \* where the get_transcript call is: start, fetch, fetched, done
    info,          \* what ydl.extract_info does: raises, or the metadata it returns
    subtitles,     \* the selected track (local `subtitles`)
    subtitle_url,  \* local `subtitle_url`
    retry,         \* the urllib3 Retry object of the running session.get
    requested,     \* the URLs an HTTP GET was sent to
    outcome,       \* how session.get ended: a response or a raised exception
    body,          \* what the response carried (read by response.json())
    result,        \* the dict get_transcript returns
    history,       \* SpecFetch only: the outcome of every attempt, in order
    dpc,           \* SpecDecode: todo, done
    subtitle_data, \* SpecDecode: the parsed payload
    transcript,    \* SpecDecode: the list the decoder builds
    upc,           \* SpecUrl: todo, done
    url,           \* SpecUrl: the string given to extract_video_id
    parsed,        \* SpecUrl: what extract_video_id returned
    ipc,           \* SpecItems: todo, done
    video_url,     \* SpecItems: argument video_url
    response,      \* SpecItems: the text of the model's response
    api,           \* SpecItems: whether messages.create raises or returns
    extracted,     \* SpecItems: what extract_items_from_transcript returned or raised
    transcript_text, \* st.session_state.transcript_text
    video_id,        \* st.session_state.video_id
    extracted_items, \* st.session_state.extracted_items
    personal_lists,  \* st.session_state.personal_lists
    files,           \* the video ids a transcript file was written for
    configured,      \* ANTHROPIC_API_KEY and DAILY_BRIEFING_API_URL are both set
    last,            \* the run that led to this state: its button and its inputs
    extracted_from   \* the transcript and video id the held items were extracted from

tvars == <<pc, info, subtitles, subtitle_url, retry, requested, outcome, body, result, history>>

dvars == <<dpc, subtitle_data, transcript>>

uvars == <<upc, url, parsed>>

ivars == <<ipc, video_url, response, api, extracted>>

svars == <<transcript_text, video_id, extracted_items, personal_lists, files, configured, last,
           extracted_from>>

vars == <<pc, info, subtitles, subtitle_url, retry, requested, outcome, body, result, history,
          dpc, subtitle_data, transcript, upc, url, parsed,
          ipc, video_url, response, api, extracted,
          transcript_text, video_id, extracted_items, personal_lists, files, configured, last,
          extracted_from>>

-----------------------------------------------------------------------------
(* Python values *)

NoneVal == [some |-> FALSE, val |-> <<>>]

Some(v) == [some |-> TRUE, val |-> v]

Min(S) == CHOOSE m \in S : \A n \in S : m <= n

SeqsUpTo(S, n) == UNION {[1..k -> S] : k \in 0..n}

-----------------------------------------------------------------------------
(* Bounds of the model *)

MaxEntries == 2

-----------------------------------------------------------------------------
(* The extractor's metadata: per track kind, the 'en' entry list or no 'en' key *)

Exts == {"json3", "vtt"}

\* an entry of a track before its URL is fixed: its format and whether it has a url
EntryShapes == [ext : Exts, hasUrl : BOOLEAN]

\* every entry's URL is its own: <<track kind, position>>
MkTrack(kind, shapes) ==
    [i \in 1..Len(shapes) |->
        [ext |-> shapes[i].ext,
         url |-> IF shapes[i].hasUrl THEN Some(<<kind, i>>) ELSE NoneVal]]

\* a listed language has at least one entry (yt-dlp appends the formats it finds to
\* the language's list, and takes the last of them for every requested language);
\* an entry carries its subtitle as a url or, without one, as inline data
TrackShapes == {s \in SeqsUpTo(EntryShapes, MaxEntries) :
                    /\ Len(s) >= 1
                    /\ \A i \in 1..Len(s) : s[i].ext = "vtt" => s[i].hasUrl}

LangTracks(kind) == {NoneVal} \cup {Some(MkTrack(kind, s)) : s \in TrackShapes}

\* the message of an exception raised by extract_info, as a sequence of phrases
ExtractorErrors ==
    { <<"ERROR: [youtube] ", "Private video", ". Sign in if you've been granted access">>,
      <<"ERROR: [youtube] ", "This video is unavailable">>,
      <<"ERROR: ", "Unable to download webpage">> }

ExtractorOutcomes ==
    { [raised |-> TRUE, msg |-> m, subtitles |-> NoneVal, automatic_captions |-> NoneVal]
        : m \in ExtractorErrors }
    \cup
    { [raised |-> FALSE, msg |-> <<>>, subtitles |-> m, automatic_captions |-> a]
        : m \in LangTracks("subtitles"), a \in LangTracks("automatic_captions") }

-----------------------------------------------------------------------------
(* Results *)

Failure(text, code, detail) ==
    [success |-> FALSE, error |-> [text |-> text, code |-> code, detail |-> detail],
     transcript |-> <<>>]

Success(segments) ==
    [success |-> TRUE, error |-> [text |-> "", code |-> 0, detail |-> <<>>],
     transcript |-> segments]

NoResult == [success |-> FALSE, error |-> [text |-> "(running)", code |-> 0, detail |-> <<>>],
             transcript |-> <<>>]

NoCaptions == Failure("No English transcript or captions available for this video.", 0, <<>>)

UnsupportedFormat ==
    Failure("JSON subtitle format not available. This video may only have VTT/SRT captions.", 0, <<>>)

-----------------------------------------------------------------------------
(* Track selection and the json3 lookup, lines 75-99 *)

\* lines 76-80 with the two tests in the other order
SelectSubtitles_AutomaticFirst(i) ==
    IF i.automatic_captions.some
    THEN [some |-> TRUE, val |-> i.automatic_captions.val, source |-> "automatic_captions"]
    ELSE IF i.subtitles.some
         THEN [some |-> TRUE, val |-> i.subtitles.val, source |-> "subtitles"]
         ELSE [some |-> FALSE, val |-> <<>>, source |-> "none"]

\* lines 76-80: the manual 'en' list if the key is there, else the automatic one
SelectSubtitles(i) ==
    IF i.subtitles.some
    THEN [some |-> TRUE, val |-> i.subtitles.val, source |-> "subtitles"]
    ELSE IF i.automatic_captions.some
         THEN [some |-> TRUE, val |-> i.automatic_captions.val, source |-> "automatic_captions"]
         ELSE [some |-> FALSE, val |-> <<>>, source |-> "none"]

\* `not subtitles` (line 82): None and the empty list are both falsy
Falsy(sel) == ~sel.some \/ Len(sel.val) = 0

\* FindJson3Url without the ext test of line 91: the first entry's url, whatever its format
FindJson3Url_AnyFormat(track) ==
    IF Len(track) = 0 THEN NoneVal ELSE track[1].url

\* lines 89-93: the url of the first json3 entry (sub.get('url')), None if there is none
FindJson3Url(track) ==
    LET js == {i \in 1..Len(track) : track[i].ext = "json3"}
    IN  IF js = {} THEN NoneVal ELSE track[Min(js)].url

-----------------------------------------------------------------------------
(* The retry session, lines 12-25, and urllib3's Retry as it is configured *)

retries == 3

status_forcelist == {429, 500, 502, 503, 504}

\* urllib3.util.retry.Retry.RETRY_AFTER_STATUS_CODES
RETRY_AFTER_STATUS_CODES == {413, 429, 503}

\* Retry(total=retries, read=retries, connect=retries, ...)
create_retry_session == [total |-> retries, read |-> retries, connect |-> retries]

NoRetry == [total |-> 0, read |-> 0, connect |-> 0]

\* what one HTTP attempt can come to: a response, or a transport error
StatusCodes == {200, 403, 404, 413, 429, 500, 502, 503, 504}

Response(status, retry_after) ==
    [kind |-> "response", status |-> status, retry_after |-> retry_after, error |-> ""]

TransportError(e) == [kind |-> "error", status |-> 0, retry_after |-> FALSE, error |-> e]

ConnectionErrors == {"ConnectTimeoutError", "NewConnectionError"}

ReadErrors == {"ReadTimeoutError"}

AttemptOutcomes ==
    {Response(s, FALSE) : s \in StatusCodes}
    \cup {Response(s, TRUE) : s \in {413, 429}}
    \cup {TransportError(e) : e \in ConnectionErrors \cup ReadErrors}

\* is_retry with every error status forced, not only those of status_forcelist
is_retry_AnyError(r, status, has_retry_after) == status >= 400

\* Retry.is_retry for a GET (an allowed method): the forcelist, or a Retry-After
\* header on one of RETRY_AFTER_STATUS_CODES while `total` is truthy
is_retry(r, status, has_retry_after) ==
    \/ status \in status_forcelist
    \/ r.total # 0 /\ has_retry_after /\ status \in RETRY_AFTER_STATUS_CODES

\* Retry.increment: total always, connect or read by the kind of error
increment(r, o) ==
    [total   |-> r.total - 1,
     connect |-> IF o.kind = "error" /\ o.error \in ConnectionErrors
                 THEN r.connect - 1 ELSE r.connect,
     read    |-> IF o.kind = "error" /\ o.error \in ReadErrors
                 THEN r.read - 1 ELSE r.read]

\* Retry.is_exhausted: the counters that are zero are filtered out, then min < 0
is_exhausted(r) ==
    LET counts == {c \in {r.total, r.connect, r.read} : c # 0}
    IN  counts # {} /\ Min(counts) < 0

\* whether urlopen goes round again after this attempt's outcome
WantsRetry(r, o) ==
    IF o.kind = "response" THEN is_retry(r, o.status, o.retry_after) ELSE TRUE

Raised(exc, status) == [kind |-> "raise", status |-> status, exc |-> exc]

Returned(status) == [kind |-> "response", status |-> status, exc |-> ""]

NoOutcome == [kind |-> "none", status |-> 0, exc |-> ""]

\* requests' HTTPAdapter.send on MaxRetryError: the exception by its reason
\* (raise_on_status is True, so an exhausted status retry raises too)
MaxRetryErrorAs(o) ==
    IF o.kind = "response" THEN Raised("RetryError", o.status)
    ELSE IF o.error = "ConnectTimeoutError" THEN Raised("ConnectTimeout", 0)
    ELSE Raised("ConnectionError", 0)

\* session.get after one attempt came to `o`: <<go on, the Retry, how it ended>>
AfterAttempt(r, o) ==
    IF WantsRetry(r, o)
    THEN IF is_exhausted(increment(r, o))
         THEN [again |-> FALSE, retry |-> NoRetry, outcome |-> MaxRetryErrorAs(o)]
         ELSE [again |-> TRUE, retry |-> increment(r, o), outcome |-> NoOutcome]
    ELSE [again |-> FALSE, retry |-> NoRetry, outcome |-> Returned(o.status)]

-----------------------------------------------------------------------------
(* The exception handlers of the fetch, lines 102-146, and the outer one, 173-184 *)

\* the classes an exception is an instance of (requests.exceptions, json)
Bases(exc) ==
    CASE exc = "ConnectTimeout"  -> {"ConnectTimeout", "ConnectionError", "Timeout", "RequestException"}
      [] exc = "ConnectionError" -> {"ConnectionError", "RequestException"}
      [] exc = "HTTPError"       -> {"HTTPError", "RequestException"}
      [] exc = "RetryError"      -> {"RetryError", "RequestException"}
      [] exc = "requests.JSONDecodeError" ->
             {"requests.JSONDecodeError", "InvalidJSONError", "RequestException",
              "json.JSONDecodeError", "ValueError"}
      [] exc = "json.JSONDecodeError" -> {"json.JSONDecodeError", "ValueError"}

\* what response.json() raises on a body that is not JSON: requests' own class
\* since 2.27, before that the json module's
JsonDecodeClasses == {"requests.JSONDecodeError", "json.JSONDecodeError"}

\* the except clauses in the order they are written
Handlers ==
    << "Timeout", "ConnectionError", "HTTPError", "RequestException", "json.JSONDecodeError" >>

\* the body of each except clause
HandlerResult(clause, e) ==
    CASE clause = "Timeout" ->
            Failure("Connection timed out while fetching subtitles. Please try again.", 0, <<>>)
      [] clause = "ConnectionError" ->
            Failure("Network connection failed. Please check your internet connection.", 0, <<>>)
      [] clause = "HTTPError" ->
            IF e.status = 429
            THEN Failure("Rate limited by YouTube. Please wait a few minutes and try again.", 0, <<>>)
            ELSE IF e.status = 403
            THEN Failure("Access denied. Video may be age-restricted or geo-blocked.", 0, <<>>)
            ELSE Failure("HTTP error {code} while fetching subtitles.", e.status, <<>>)
      [] clause = "RequestException" ->
            Failure("Failed to fetch subtitles: {e}", 0, <<e.exc>>)
      [] clause = "json.JSONDecodeError" ->
            Failure("Invalid subtitle format received.", 0, <<>>)

Contains(msg, phrase) == \E i \in 1..Len(msg) : msg[i] = phrase

\* lines 173-184: except Exception
OuterHandler(msg) ==
    IF Contains(msg, "Private video") \/ Contains(msg, "This video is unavailable")
    THEN Failure("Video is unavailable. It may be private, deleted, or restricted.", 0, <<>>)
    ELSE Failure("Error: {error_msg}", 0, msg)

\* the first except clause the exception is an instance of; the outer handler if none
HandleFetchException(e) ==
    LET hit == {i \in 1..Len(Handlers) : Handlers[i] \in Bases(e.exc)}
    IN  IF hit = {} THEN OuterHandler(<<e.exc>>)
        ELSE HandlerResult(Handlers[Min(hit)], e)

\* response.raise_for_status(), line 109
RaisesForStatus(status) == 400 <= status /\ status < 600

-----------------------------------------------------------------------------
(* Text *)

Whitespace == {" ", "\n"}

IsBlank(t) == \A i \in 1..Len(t) : t[i] \in Whitespace

\* str.strip(): the text from its first to its last non-whitespace character
Strip(t) ==
    LET solid == {i \in 1..Len(t) : t[i] \notin Whitespace}
    IN  IF solid = {} THEN <<>>
        ELSE SubSeq(t, Min(solid), CHOOSE m \in solid : \A n \in solid : n <= m)

-----------------------------------------------------------------------------
(* The subtitle payload (json3) and the decoder, lines 148-159 *)

\* the most events in a payload
MaxEvents == 2

\* the most segs in a payload, over all its events
MaxSegs == 3

\* the most events in a payload a fetch brings
MaxBodyEvents == 1

NoneInt == [some |-> FALSE, val |-> 0]

Utf8Values == {NoneVal, Some(<<" ">>), Some(<<"a">>), Some(<<"b", " ">>)}

Segs == [utf8 : Utf8Values]

TStartValues == {NoneInt, [some |-> TRUE, val |-> 1500]}

DDurationValues == {NoneInt, [some |-> TRUE, val |-> 2000]}

Times == [tStartMs : TStartValues, dDurationMs : DDurationValues]

\* An event sequence is drawn as: per event its number of segs (-1: the event has
\* no 'segs' key), the segs of all events in one row, and per event its two times.
RECURSIVE SegsBefore(_, _)
SegsBefore(ns, i) ==
    IF i <= 1 THEN 0
    ELSE SegsBefore(ns, i - 1) + (IF ns[i - 1] < 0 THEN 0 ELSE ns[i - 1])

TotalSegs(ns) == SegsBefore(ns, Len(ns) + 1)

EventsFrom(ns, row, times) ==
    [i \in 1..Len(ns) |->
        [segs        |-> IF ns[i] < 0 THEN NoneVal
                         ELSE Some(SubSeq(row, SegsBefore(ns, i) + 1, SegsBefore(ns, i) + ns[i])),
         tStartMs    |-> times[i].tStartMs,
         dDurationMs |-> times[i].dDurationMs]]

NoEventsKey == [has_events |-> FALSE, events |-> <<>>]

WithEvents(es) == [has_events |-> TRUE, events |-> es]

\* p is a payload of at most maxEvents events and at most maxSegs segs in all
IsPayload(p, maxEvents, maxSegs) ==
    \/ p = NoEventsKey
    \/ \E k \in 0..maxEvents, t \in 0..maxSegs :
         \E ns \in [1..k -> -1..t] :
            /\ TotalSegs(ns) = t
            /\ \E row \in [1..t -> Segs], times \in [1..k -> Times] :
                  p = WithEvents(EventsFrom(ns, row, times))

\* the payloads a fetch may bring: one seg at most
BodyPayloads ==
    {NoEventsKey} \cup
    UNION { UNION { { WithEvents(EventsFrom(ns, row, times)) :
                         row \in [1..t -> Segs], times \in [1..k -> Times] }
                     : ns \in {n \in [1..k -> -1..t] : TotalSegs(n) = t} }
              : <<k, t>> \in (0..MaxBodyEvents) \X (0..1) }

\* ''.join([seg.get('utf8', '') for seg in event['segs']]), line 153
RECURSIVE JoinUtf8(_)
JoinUtf8(segs) ==
    IF segs = <<>> THEN <<>>
    ELSE (IF Head(segs).utf8.some THEN Head(segs).utf8.val ELSE <<>>) \o JoinUtf8(Tail(segs))

\* x / 1000.0: seconds, as whole seconds and thousandths
Seconds(ms) == [whole |-> ms \div 1000, milli |-> ms % 1000]

\* event.get(key, 0)
GetOr0(field) == IF field.some THEN field.val ELSE 0

\* line 156 storing `text` instead of `text.strip()`
SegmentText_NoStrip(text) == text

\* the text stored in a segment, line 156
SegmentText(text) == Strip(text)

\* lines 152-159 for one event: the segments it appends
DecodeEvent(event) ==
    IF ~event.segs.some THEN <<>>
    ELSE LET text == JoinUtf8(event.segs.val)
         IN  IF Strip(text) = <<>> THEN <<>>
             ELSE << [text     |-> SegmentText(text),
                      start    |-> Seconds(GetOr0(event.tStartMs)),
                      duration |-> Seconds(GetOr0(event.dDurationMs))] >>

\* the for loop of line 151: the events in payload order
RECURSIVE DecodeEvents(_)
DecodeEvents(events) ==
    IF events = <<>> THEN <<>>
    ELSE DecodeEvent(Head(events)) \o DecodeEvents(Tail(events))

\* lines 149-159
Decode(payload) ==
    IF payload.has_events THEN DecodeEvents(payload.events) ELSE <<>>

EmptyTranscript == Failure("Could not parse transcript data.", 0, <<>>)

\* lines 161-171 without the `if not transcript` test
ResultOfTranscript_NoEmptyTest(segments) == Success(segments)

\* lines 161-171
ResultOfTranscript(segments) ==
    IF segments = <<>> THEN EmptyTranscript ELSE Success(segments)

\* what a 2xx response carries: bytes that are not JSON, or a payload
NotJson(cls) == [json |-> FALSE, raises |-> cls, payload |-> NoEventsKey]

Json(p) == [json |-> TRUE, raises |-> "", payload |-> p]

Bodies == {NotJson(c) : c \in JsonDecodeClasses} \cup {Json(p) : p \in BodyPayloads}

NoBody == [json |-> FALSE, raises |-> "", payload |-> NoEventsKey]

\* lines 109-171 once session.get has ended with `o`, the response carrying `b`
AfterFetch(o, b) ==
    IF o.kind = "raise" THEN HandleFetchException(o)
    ELSE IF RaisesForStatus(o.status)
    THEN HandleFetchException(Raised("HTTPError", o.status))
    ELSE IF ~b.json THEN HandleFetchException(Raised(b.raises, o.status))
    ELSE ResultOfTranscript(Decode(b.payload))

-----------------------------------------------------------------------------
(* extract_video_id.  A URL is a sequence of tokens, each standing for the  *)
(* characters in its name; the two regular expressions are matched token by *)
(* token.  No token holds part of a literal of the patterns except the      *)
(* literal's own tokens, so a match over tokens is a match over characters. *)

MaxParams == 2

MaxUrlTokens == 3

Max(S) == CHOOSE m \in S : \A n \in S : n <= m

Watch == "youtube.com/watch"

Short == "youtu.be/"

Embed == "youtube.com/embed/"

UrlTokens == {"https://", Watch, Short, Embed, "?", "v=", "&", "#", "\n",
              "a", "b", "t", "p", "="}

\* [^&\n?#]
CaptureClass == UrlTokens \ {"&", "\n", "?", "#"}

\* . (any character but a newline)
Dot == UrlTokens \ {"\n"}

StartsWith(u, i, lit) ==
    /\ i + Len(lit) - 1 <= Len(u)
    /\ \A k \in 1..Len(lit) : u[i + k - 1] = lit[k]

\* ([^&\n?#]+) from position j: the longest run, empty when the class does not match
CaptureAt(u, j) ==
    LET ends == {k \in j..Len(u) : \A m \in j..k : u[m] \in CaptureClass}
    IN  IF ends = {} THEN <<>> ELSE SubSeq(u, j, Max(ends))

\* line 38: (?:youtube\.com\/watch\?v=|youtu\.be\/|youtube\.com\/embed\/)
Alternatives == << <<Watch, "?", "v=">>, <<Short>>, <<Embed>> >>

MatchesAt(u, i, lit) == StartsWith(u, i, lit) /\ CaptureAt(u, i + Len(lit)) # <<>>

\* re.search with the pattern of line 38: the leftmost position where an
\* alternative and the capture match, the alternatives tried in order
SearchPrimary(u) ==
    LET starts == {i \in 1..Len(u) : \E a \in 1..Len(Alternatives) : MatchesAt(u, i, Alternatives[a])}
    IN  IF starts = {} THEN NoneVal
        ELSE LET i == Min(starts)
                 a == Min({x \in 1..Len(Alternatives) : MatchesAt(u, i, Alternatives[x])})
             IN  Some(CaptureAt(u, i + Len(Alternatives[a])))

\* the positions of a `v=` that .* can stop before, having started after `watch?` at i
VAfter(u, i) ==
    {j \in (i + 2)..Len(u) :
        /\ u[j] = "v="
        /\ \A m \in (i + 2)..(j - 1) : u[m] \in Dot
        /\ CaptureAt(u, j + 1) # <<>>}

\* re.search with the pattern of line 39, youtube\.com\/watch\?.*v=([^&\n?#]+):
\* the leftmost `watch?`, and .* being greedy, the last `v=` it can reach
SearchFallback(u) ==
    LET starts == {i \in 1..Len(u) : StartsWith(u, i, <<Watch, "?">>) /\ VAfter(u, i) # {}}
    IN  IF starts = {} THEN NoneVal
        ELSE Some(CaptureAt(u, Max(VAfter(u, Min(starts))) + 1))

\* lines 42-48: the first pattern that matches decides; None when none does
extract_video_id(u) ==
    IF SearchPrimary(u).some THEN SearchPrimary(u) ELSE SearchFallback(u)

\* the URLs: the documented shapes, each written from its parts, and every
\* string of up to MaxUrlTokens tokens
VideoIds == {<<"a">>, <<"a", "b">>}

\* t=a, pv=b, t
Params == {<<"t", "=", "a">>, <<"p", "v=", "b">>, <<"t">>}

Schemes == {<<>>, <<"https://">>}

Fragments == {<<>>, <<"#", "a">>}

RECURSIVE Query(_)
Query(ps) ==
    IF ps = <<>> THEN <<>>
    ELSE IF Len(ps) = 1 THEN ps[1]
    ELSE ps[1] \o <<"&">> \o Query(Tail(ps))

WatchUrl(scheme, before, id, after, fragment) ==
    scheme \o <<Watch, "?">> \o Query(before \o << <<"v=">> \o id >> \o after) \o fragment

PathUrl(scheme, host, id, after) ==
    scheme \o <<host>> \o id \o (IF after = <<>> THEN <<>> ELSE <<"?">> \o Query(after))

IsUrlInput(x) ==
    \/ \E s \in Schemes, id \in VideoIds, f \in Fragments :
       \E before \in SeqsUpTo(Params, MaxParams), after \in SeqsUpTo(Params, MaxParams) :
           x = [shape |-> "watch", id |-> id, text |-> WatchUrl(s, before, id, after, f)]
    \/ \E s \in Schemes, id \in VideoIds, host \in {Short, Embed} :
       \E after \in SeqsUpTo(Params, MaxParams) :
           x = [shape |-> IF host = Short THEN "short" ELSE "embed", id |-> id,
                text |-> PathUrl(s, host, id, after)]
    \/ \E t \in SeqsUpTo(UrlTokens, MaxUrlTokens) :
           x = [shape |-> "other", id |-> <<>>, text |-> t]

-----------------------------------------------------------------------------
(* extract_items_from_transcript.  The model's response is a sequence of    *)
(* tokens: a code fence, the word json, a newline, other prose, or a JSON   *)
(* array written out.  An array entry is an object, a string or a number;   *)
(* an object's notes, where it has any, are a JSON string or null.          *)

MaxItems == 2

Fence == [t |-> "fence"]

JsonWord == [t |-> "json"]

Newline == [t |-> "\n"]

Prose == [t |-> "prose"]

JNull == [j |-> "null", s |-> <<>>]

JStr(s) == [j |-> "str", s |-> s]

Missing == [some |-> FALSE, val |-> JNull]

JObject(name, notes) == [kind |-> "object", name |-> name, notes |-> notes, val |-> <<>>]

JString(s) == [kind |-> "string", name |-> Missing, notes |-> Missing, val |-> s]

JNumber == [kind |-> "number", name |-> Missing, notes |-> Missing, val |-> <<>>]

NotesValues == {Missing, Some(JNull), Some(JStr(<<>>)), Some(JStr(<<"n">>))}

Entries ==
    {JObject(Some(JStr(<<"X">>)), n) : n \in NotesValues}
    \cup {JObject(Missing, Some(JStr(<<"n">>))), JString(<<"Y">>), JNumber}

Array(entries) == [t |-> "array", entries |-> entries]

IsArray(tok) == tok.t = "array"

\* what the response is wrapped in: fenced or not, tagged or not, closed or not
Openings == {<<>>, <<Newline>>, <<Fence>>, <<Fence, Newline>>, <<Fence, JsonWord>>,
             <<Fence, JsonWord, Newline>>, <<Fence, Prose, Newline>>,
             <<Prose, Fence, JsonWord, Newline>>}

Closings == {<<>>, <<Newline>>, <<Fence>>, <<Newline, Fence>>,
             <<Newline, Fence, Newline, Prose>>}

IsResponse(r) ==
    \E o \in Openings, c \in Closings :
        \/ \E es \in SeqsUpTo(Entries, MaxItems) : r = o \o <<Array(es)>> \o c
        \/ r = o \o <<Prose>> \o c

\* messages.create either raises or returns a response text
ApiReplies == {"raises", "returns"}

VideoUrl(id) == <<"https://www.youtube.com/watch?v=">> \o id

\* str.strip() on the response: newlines off both ends
StripNewlines(r) ==
    LET keep == {i \in 1..Len(r) : r[i] # Newline}
    IN  IF keep = {} THEN <<>> ELSE SubSeq(r, Min(keep), Max(keep))

\* split(fence)[1]: what stands between the first fence and the second, or the end
AfterFirstFence(r) ==
    LET later == {i \in 2..Len(r) : r[i] = Fence}
    IN  IF later = {} THEN SubSeq(r, 2, Len(r)) ELSE SubSeq(r, 2, Min(later) - 1)

DropJsonWord(r) == IF r # <<>> /\ r[1] = JsonWord THEN Tail(r) ELSE r

\* lines 281-288
Unfence(text) ==
    LET response_text == StripNewlines(text)
    IN  IF response_text # <<>> /\ response_text[1] = Fence
        THEN StripNewlines(DropJsonWord(AfterFirstFence(response_text)))
        ELSE response_text

\* line 290: json.loads accepts one JSON value with whitespace around it
json_loads(text) ==
    LET t == StripNewlines(text)
    IN  IF Len(t) = 1 /\ IsArray(t[1]) THEN Some(t[1].entries) ELSE NoneVal

SourceLine(source) == <<"Source: ">> \o source

Truthy(v) == v.j = "str" /\ v.s # <<>>

\* lines 296-300 without the else branch: the notes left as they are
NotesWithSource_NotesOnly(item, source) ==
    IF item.notes.some /\ Truthy(item.notes.val)
    THEN item.notes.val.s
    ELSE <<>>

\* lines 296-300
NotesWithSource(item, source) ==
    IF item.notes.some /\ Truthy(item.notes.val)
    THEN item.notes.val.s \o <<"\n", "\n">> \o SourceLine(source)
    ELSE SourceLine(source)

Item(name, notes) == [name |-> name, notes |-> notes]

\* lines 293-303
RECURSIVE Normalize(_, _)
Normalize(items, source) ==
    IF items = <<>> THEN <<>>
    ELSE LET item == Head(items)
             rest == Normalize(Tail(items), source)
         IN  IF item.kind = "object" /\ item.name.some
             THEN <<Item(item.name.val.s, NotesWithSource(item, source))>> \o rest
             ELSE IF item.kind = "string"
             THEN <<Item(item.val, SourceLine(source))>> \o rest
             ELSE rest

Returns(items) == [raised |-> "", items |-> items]

Raises(exc) == [raised |-> exc, items |-> <<>>]

\* lines 274-305
extract_items_from_transcript(reply, text, source) ==
    IF reply = "raises" THEN Raises("APIError")
    ELSE LET items == json_loads(Unfence(text))
         IN  IF items.some THEN Returns(Normalize(items.val, source))
             ELSE Raises("json.JSONDecodeError")

-----------------------------------------------------------------------------
(* format_transcript, lines 187-202 *)

DigitChars == <<"0", "1", "2", "3", "4", "5", "6", "7", "8", "9">>

RECURSIVE Decimal(_)
Decimal(n) ==
    IF n < 10 THEN <<DigitChars[n + 1]>>
    ELSE Decimal(n \div 10) \o <<DigitChars[(n % 10) + 1]>>

\* the format :02d
Pad2(n) == IF n < 10 THEN <<"0">> \o Decimal(n) ELSE Decimal(n)

\* line 198: int(start // 60) and int(start % 60) of a start in seconds
Timestamp(start) ==
    <<"[">> \o Pad2(start.whole \div 60) \o <<":">> \o Pad2(start.whole % 60) \o <<"]">>

RECURSIVE JoinWith(_, _)
JoinWith(sep, parts) ==
    IF parts = <<>> THEN <<>>
    ELSE IF Len(parts) = 1 THEN parts[1]
    ELSE parts[1] \o <<sep>> \o JoinWith(sep, Tail(parts))

format_transcript(transcript_data, include_timestamps) ==
    IF include_timestamps
    THEN JoinWith("\n", [i \in 1..Len(transcript_data) |->
                            Timestamp(transcript_data[i].start) \o <<" ">>
                            \o transcript_data[i].text])
    ELSE JoinWith(" ", [i \in 1..Len(transcript_data) |-> transcript_data[i].text])

-----------------------------------------------------------------------------
(* get_transcript as steps *)

TranscriptIdle ==
    /\ pc = "off"
    /\ info = [raised |-> FALSE, msg |-> <<>>, subtitles |-> NoneVal,
               automatic_captions |-> NoneVal]
    /\ subtitles = SelectSubtitles([subtitles |-> NoneVal, automatic_captions |-> NoneVal])
    /\ subtitle_url = NoneVal
    /\ retry = NoRetry
    /\ requested = {}
    /\ outcome = NoOutcome
    /\ body = NoBody
    /\ result = NoResult
    /\ history = <<>>

DecodeIdle ==
    /\ dpc = "off"
    /\ subtitle_data = NoEventsKey
    /\ transcript = <<>>

InitCall ==
    /\ pc = "start"
    /\ info \in ExtractorOutcomes
    /\ subtitles = SelectSubtitles([subtitles |-> NoneVal, automatic_captions |-> NoneVal])
    /\ subtitle_url = NoneVal
    /\ retry = NoRetry
    /\ requested = {}
    /\ outcome = NoOutcome
    /\ body = NoBody
    /\ result = NoResult
    /\ history = <<>>

\* lines 71-99 and 173-184: the metadata, the track, the json3 url
Resolve ==
    /\ pc = "start"
    /\ UNCHANGED <<info, requested, outcome, body, history>>
    /\ UNCHANGED <<dvars, uvars, ivars, svars>>
    /\ IF info.raised
       THEN /\ result' = OuterHandler(info.msg)
            /\ pc' = "done"
            /\ UNCHANGED <<subtitles, subtitle_url, retry>>
       ELSE /\ subtitles' = SelectSubtitles(info)
            /\ IF Falsy(subtitles')
               THEN /\ result' = NoCaptions
                    /\ pc' = "done"
                    /\ UNCHANGED <<subtitle_url, retry>>
               ELSE /\ subtitle_url' = FindJson3Url(subtitles'.val)
                    /\ IF ~subtitle_url'.some
                       THEN /\ result' = UnsupportedFormat
                            /\ pc' = "done"
                            /\ UNCHANGED retry
                       ELSE /\ retry' = create_retry_session
                            /\ pc' = "fetch"
                            /\ UNCHANGED result

\* one HTTP attempt of session.get (lines 103-108), and what urlopen does next
AttemptCore(o) ==
    /\ pc = "fetch"
    /\ requested' = requested \cup {subtitle_url.val}
    /\ LET a == AfterAttempt(retry, o)
       IN  /\ retry' = a.retry
           /\ outcome' = a.outcome
           /\ pc' = IF a.again THEN "fetch" ELSE "fetched"
    /\ UNCHANGED <<info, subtitles, subtitle_url, body, result>>
    /\ UNCHANGED <<dvars, uvars, ivars, svars>>

Attempt == \E o \in AttemptOutcomes : AttemptCore(o) /\ UNCHANGED history

\* lines 109-171: raise_for_status, json(), the handlers, the decoder
Finish ==
    /\ pc = "fetched"
    /\ IF outcome.kind = "response" /\ ~RaisesForStatus(outcome.status)
       THEN \E b \in Bodies : body' = b /\ result' = AfterFetch(outcome, b)
       ELSE body' = NoBody /\ result' = AfterFetch(outcome, NoBody)
    /\ pc' = "done"
    /\ UNCHANGED <<info, subtitles, subtitle_url, retry, requested, outcome, history>>
    /\ UNCHANGED <<dvars, uvars, ivars, svars>>

UrlIdle ==
    /\ upc = "off"
    /\ url = [shape |-> "other", id |-> <<>>, text |-> <<>>]
    /\ parsed = NoneVal

NoRun == [action |-> "none", url_input |-> <<>>, include_timestamps |-> FALSE,
          result |-> NoResult, lists_fetched |-> FALSE]

SessionIdle ==
    /\ transcript_text = NoneVal
    /\ video_id = NoneVal
    /\ extracted_items = NoneVal
    /\ personal_lists = NoneVal
    /\ files = {}
    /\ configured = FALSE
    /\ last = NoRun
    /\ extracted_from = NoneVal

ItemsIdle ==
    /\ ipc = "off"
    /\ video_url = <<>>
    /\ response = <<>>
    /\ api = "returns"
    /\ extracted = Returns(<<>>)

Init == InitCall /\ DecodeIdle /\ UrlIdle /\ ItemsIdle /\ SessionIdle

Next == Resolve \/ Attempt \/ Finish

Spec == Init /\ [][Next]_vars

-----------------------------------------------------------------------------
(* The retry loop alone, every attempt's outcome recorded *)

\* two videos whose track has a json3 url: a manual one, an automatic one
FetchInfos ==
    { i \in ExtractorOutcomes :
        /\ ~i.raised
        /\ \/ i.subtitles = Some(MkTrack("subtitles", <<[ext |-> "json3", hasUrl |-> TRUE]>>))
              /\ ~i.automatic_captions.some
           \/ i.automatic_captions =
                 Some(MkTrack("automatic_captions", <<[ext |-> "json3", hasUrl |-> TRUE]>>))
              /\ ~i.subtitles.some }

InitFetch ==
    InitCall /\ info \in FetchInfos /\ DecodeIdle /\ UrlIdle /\ ItemsIdle /\ SessionIdle

AttemptH == \E o \in AttemptOutcomes : AttemptCore(o) /\ history' = Append(history, o)

NextFetch == Resolve \/ AttemptH

SpecFetch == InitFetch /\ [][NextFetch]_vars

-----------------------------------------------------------------------------
(* The decoder alone *)

InitDecode ==
    /\ SessionIdle
    /\ TranscriptIdle
    /\ UrlIdle
    /\ ItemsIdle
    /\ dpc = "todo"
    /\ IsPayload(subtitle_data, MaxEvents, MaxSegs)
    /\ transcript = <<>>

\* lines 148-159
DecodeStep ==
    /\ dpc = "todo"
    /\ transcript' = Decode(subtitle_data)
    /\ dpc' = "done"
    /\ UNCHANGED subtitle_data
    /\ UNCHANGED <<tvars, uvars, ivars, svars>>

NextDecode == DecodeStep

SpecDecode == InitDecode /\ [][NextDecode]_vars

-----------------------------------------------------------------------------
(* extract_video_id alone *)

InitUrl ==
    /\ SessionIdle
    /\ TranscriptIdle
    /\ DecodeIdle
    /\ ItemsIdle
    /\ upc = "todo"
    /\ IsUrlInput(url)
    /\ parsed = NoneVal

\* lines 28-48
ExtractVideoId ==
    /\ upc = "todo"
    /\ parsed' = extract_video_id(url.text)
    /\ upc' = "done"
    /\ UNCHANGED url
    /\ UNCHANGED <<tvars, dvars, ivars, svars>>

NextUrl == ExtractVideoId

SpecUrl == InitUrl /\ [][NextUrl]_vars

-----------------------------------------------------------------------------
(* extract_items_from_transcript alone *)

InitItems ==
    /\ SessionIdle
    /\ TranscriptIdle
    /\ DecodeIdle
    /\ UrlIdle
    /\ ipc = "todo"
    /\ \E id \in VideoIds : video_url = VideoUrl(id)
    /\ IsResponse(response)
    /\ api \in ApiReplies
    /\ extracted = Returns(<<>>)

\* lines 226-305
ExtractItems ==
    /\ ipc = "todo"
    /\ extracted' = extract_items_from_transcript(api, response, video_url)
    /\ ipc' = "done"
    /\ UNCHANGED <<video_url, response, api>>
    /\ UNCHANGED <<tvars, dvars, uvars, svars>>

NextItems == ExtractItems

SpecItems == InitItems /\ [][NextItems]_vars

-----------------------------------------------------------------------------
(* The Streamlit script, lines 316-499: one action is one run of the script, *)
(* started by a button or by any other widget                                *)

\* what the user may type into the URL field: nothing, no video URL, two videos
SessionUrls == {<<>>, <<"t">>, <<Short, "a">>, <<Watch, "?", "v=", "a", "b">>}

Segment(text, ms) == [text |-> text, start |-> Seconds(ms), duration |-> Seconds(2000)]

\* what get_transcript may return for a video
GetTranscriptResults ==
    { Success(<<Segment(<<"a">>, 1500)>>),
      Success(<<Segment(<<"a">>, 1500), Segment(<<"b">>, 65000)>>),
      NoCaptions, EmptyTranscript }

\* the auto-save checkbox and whether save_transcript_to_file raises
AutoSaves == {"off", "saved", "raises"}

PersonalList(id, name) == [id |-> id, name |-> name]

\* GET /api/personal-lists: failing, or answering with the lists
ListsReplies ==
    { [ok |-> FALSE, lists |-> <<>>], [ok |-> TRUE, lists |-> <<>>],
      [ok |-> TRUE, lists |-> <<PersonalList(1, "Books")>>] }

\* the model's responses a session sees
SessionResponses ==
    { <<Array(<<>>)>>, <<Array(<<JString(<<"Y">>)>>)>>, <<Prose>>,
      <<Fence, JsonWord, Newline,
        Array(<<JObject(Some(JStr(<<"X">>)), Some(JStr(<<"n">>)))>>), Newline, Fence>> }

\* POST .../items/batch
SaveReplies == {"ok", "not ok", "raises"}

\* lines 316-321
InitSession ==
    /\ TranscriptIdle
    /\ DecodeIdle
    /\ UrlIdle
    /\ ItemsIdle
    /\ transcript_text = NoneVal
    /\ video_id = NoneVal
    /\ extracted_items = NoneVal
    /\ personal_lists = NoneVal
    /\ files = {}
    /\ configured \in BOOLEAN
    /\ last = NoRun
    /\ extracted_from = NoneVal

\* line 349 for each of the URLs
VideoIdOf == [u \in SessionUrls |-> extract_video_id(u)]

\* lines 340-369 without line 345: the extracted items are left in place
ExtractTranscriptHandler_KeepsItems(url_input, include_timestamps, r) ==
    LET id == VideoIdOf[url_input]
        now == [transcript_text |-> transcript_text, video_id |-> video_id,
                extracted_items |-> extracted_items, personal_lists |-> personal_lists,
                result |-> NoResult]
        reset == [now EXCEPT !.personal_lists = NoneVal]
    IN  IF url_input = <<>> THEN now
        ELSE IF ~id.some THEN reset
        ELSE IF r.success
        THEN [reset EXCEPT !.transcript_text =
                               Some(format_transcript(r.transcript, include_timestamps)),
                           !.video_id = id,
                           !.result = r]
        ELSE [reset EXCEPT !.transcript_text = NoneVal, !.video_id = NoneVal, !.result = r]

\* lines 340-369: the session state the Extract Transcript handler leaves
ExtractTranscriptHandler(url_input, include_timestamps, r) ==
    LET id == VideoIdOf[url_input]
        now == [transcript_text |-> transcript_text, video_id |-> video_id,
                extracted_items |-> extracted_items, personal_lists |-> personal_lists,
                result |-> NoResult]
        reset == [now EXCEPT !.extracted_items = NoneVal, !.personal_lists = NoneVal]
    IN  IF url_input = <<>> THEN now
        ELSE IF ~id.some THEN reset
        ELSE IF r.success
        THEN [reset EXCEPT !.transcript_text =
                               Some(format_transcript(r.transcript, include_timestamps)),
                           !.video_id = id,
                           !.result = r]
        ELSE [reset EXCEPT !.transcript_text = NoneVal, !.video_id = NoneVal, !.result = r]

\* line 372: a transcript is on display
Shown(text) == text.some /\ text.val # <<>>

\* lines 388-393
AutoSave(text, id, auto_save) ==
    IF Shown(text) /\ auto_save = "saved" THEN files \cup {id.val} ELSE files

\* line 412
FetchesLists(text, lists) == Shown(text) /\ configured /\ ~lists.some

\* lines 412-420
Lists(text, lists, reply) ==
    IF FetchesLists(text, lists)
    THEN Some(IF reply.ok THEN reply.lists ELSE <<>>)
    ELSE lists

\* lines 340-422, the Extract Transcript button pressed
ExtractTranscriptRun ==
    \E url_input \in SessionUrls, include_timestamps \in BOOLEAN,
       r \in GetTranscriptResults, auto_save \in AutoSaves, reply \in ListsReplies :
        LET s == ExtractTranscriptHandler(url_input, include_timestamps, r)
        IN  /\ transcript_text' = s.transcript_text
            /\ video_id' = s.video_id
            /\ extracted_items' = s.extracted_items
            /\ personal_lists' = Lists(s.transcript_text, s.personal_lists, reply)
            /\ files' = AutoSave(s.transcript_text, s.video_id, auto_save)
            /\ last' = [action |-> "Extract Transcript", url_input |-> url_input,
                        include_timestamps |-> include_timestamps, result |-> s.result,
                        lists_fetched |-> FetchesLists(s.transcript_text, s.personal_lists)]
            /\ UNCHANGED <<configured, extracted_from>>
            /\ UNCHANGED <<tvars, dvars, uvars, ivars>>

\* lines 407, 423-425: the Extract Items button is on the page
ItemsButtonShown ==
    /\ Shown(transcript_text)
    /\ configured
    /\ personal_lists.some
    /\ personal_lists.val # <<>>

\* lines 372-450, the Extract Items button pressed
ExtractItemsRun ==
    /\ ItemsButtonShown
    /\ \E auto_save \in AutoSaves, reply \in ApiReplies, text \in SessionResponses :
        LET items == extract_items_from_transcript(reply, text, VideoUrl(video_id.val))
        IN  /\ extracted_items' = IF items.raised = "" THEN Some(items.items) ELSE NoneVal
            /\ extracted_from' = IF items.raised = ""
                                 THEN Some([transcript_text |-> transcript_text.val,
                                            video_id |-> video_id.val])
                                 ELSE extracted_from
            /\ files' = AutoSave(transcript_text, video_id, auto_save)
            /\ last' = [NoRun EXCEPT !.action = "Extract Items"]
    /\ UNCHANGED <<transcript_text, video_id, personal_lists, configured>>
    /\ UNCHANGED <<tvars, dvars, uvars, ivars>>

\* lines 372-499, the Save button pressed with some item ticked
SaveRun ==
    /\ ItemsButtonShown
    /\ extracted_items.some
    /\ extracted_items.val # <<>>
    /\ \E auto_save \in AutoSaves, reply \in SaveReplies :
       \E selected \in SUBSET (1..Len(extracted_items.val)) :
        /\ selected # {}
        /\ extracted_items' = IF reply = "ok" THEN NoneVal ELSE extracted_items
        /\ files' = AutoSave(transcript_text, video_id, auto_save)
        /\ last' = [NoRun EXCEPT !.action = "Save"]
    /\ UNCHANGED <<transcript_text, video_id, personal_lists, configured, extracted_from>>
    /\ UNCHANGED <<tvars, dvars, uvars, ivars>>

\* lines 372-422, a run no button started (a checkbox, the text field)
Rerun ==
    /\ \E auto_save \in AutoSaves, reply \in ListsReplies :
        /\ personal_lists' = Lists(transcript_text, personal_lists, reply)
        /\ files' = AutoSave(transcript_text, video_id, auto_save)
        /\ last' = [NoRun EXCEPT !.action = "rerun",
                                 !.lists_fetched = FetchesLists(transcript_text, personal_lists)]
    /\ UNCHANGED <<transcript_text, video_id, extracted_items, configured, extracted_from>>
    /\ UNCHANGED <<tvars, dvars, uvars, ivars>>

NextSession == ExtractTranscriptRun \/ ExtractItemsRun \/ SaveRun \/ Rerun

SpecSession == InitSession /\ [][NextSession]_vars

-----------------------------------------------------------------------------
(* Claims about get_transcript *)

\* a track is in use once line 82 has let it through
Selected(source) ==
    /\ pc \in {"fetch", "fetched", "done"}
    /\ ~info.raised
    /\ ~Falsy(subtitles)
    /\ subtitles.source = source

Resolved == pc \in {"fetch", "fetched", "done"} /\ ~info.raised

NoUsableJson3(track) ==
    \A i \in 1..Len(track) : ~(track[i].ext = "json3" /\ track[i].url.some)

C2_UnsupportedFormat ==
    /\ ((Selected("subtitles") \/ Selected("automatic_captions"))
            /\ NoUsableJson3(subtitles.val))
          => /\ pc = "done"
             /\ result = Failure("JSON subtitle format not available. This video may only have VTT/SRT captions.",
                                 0, <<>>)
             /\ result # Failure("No English transcript or captions available for this video.",
                                 0, <<>>)
             /\ requested = {}
    /\ \A u \in requested :
          \E i \in 1..Len(subtitles.val) :
              subtitles.val[i].ext = "json3" /\ subtitles.val[i].url = Some(u)

\* only automatic captions, none of them json3
C2_Witness ==
    /\ pc = "done"
    /\ ~info.subtitles.some
    /\ Selected("automatic_captions")
    /\ \A i \in 1..Len(subtitles.val) : subtitles.val[i].ext = "vtt"
    /\ result = UnsupportedFormat
    /\ requested = {}

EndedWithErrorResponse ==
    \/ outcome.kind = "response" /\ outcome.status >= 400
    \/ outcome.kind = "raise" /\ outcome.exc = "RetryError"

\* C4: when the fetch ends with an HTTP error response, the failure goes by the
\* status of that response: 429 RateLimited, 403 AccessDenied, any other 4xx/5xx
\* (500/502/503/504 after the retries too) HttpError with the status.
C4_StatusDecidesFailure ==
    (pc = "done" /\ EndedWithErrorResponse) =>
        result =
          IF outcome.status = 429
          THEN Failure("Rate limited by YouTube. Please wait a few minutes and try again.", 0, <<>>)
          ELSE IF outcome.status = 403
          THEN Failure("Access denied. Video may be age-restricted or geo-blocked.", 0, <<>>)
          ELSE Failure("HTTP error {code} while fetching subtitles.", outcome.status, <<>>)

Fetched2xx == outcome.kind = "response" /\ outcome.status \in 200..299

\* C5: a 2xx response whose body is not JSON gives MalformedPayload
\* ('Invalid subtitle format received.'), not the generic fetch failure.
C5_MalformedPayload ==
    (pc = "done" /\ Fetched2xx /\ ~body.json) =>
        result = Failure("Invalid subtitle format received.", 0, <<>>)

\* a payload that decodes to nothing: no events key, no event with segs, or blank text only
ZeroSegments(p) ==
    \/ ~p.has_events
    \/ \A i \in 1..Len(p.events) :
          \/ ~p.events[i].segs.some
          \/ IsBlank(JoinUtf8(p.events[i].segs.val))

\* C6: every result is a Success or a Failure, never both; a Success carries at
\* least one segment and no segment of blank text; a fetched payload that decodes
\* to zero segments gives EmptyTranscript.
C6_SuccessIsNonEmpty ==
    pc = "done" =>
        /\ result.success =>
              /\ result.error.text = ""
              /\ Len(result.transcript) > 0
              /\ \A i \in 1..Len(result.transcript) : ~IsBlank(result.transcript[i].text)
        /\ ~result.success => result.error.text # "" /\ result.transcript = <<>>
        /\ (Fetched2xx /\ body.json /\ ZeroSegments(body.payload))
              => result = Failure("Could not parse transcript data.", 0, <<>>)

\* a fetched payload whose only event has a seg and blank text
C6_Witness ==
    /\ pc = "done"
    /\ Fetched2xx
    /\ body.json
    /\ body.payload.has_events
    /\ Len(body.payload.events) = 1
    /\ body.payload.events[1].segs.some
    /\ Len(body.payload.events[1].segs.val) = 1
    /\ body.payload.events[1].segs.val[1].utf8.some
    /\ result = EmptyTranscript

-----------------------------------------------------------------------------
(* Claims about the retry loop *)

Statuses(h) == [i \in 1..Len(h) |-> h[i].status]

ClaimedRetryStatuses == {429, 500, 502, 503, 504}

ExamplesOfC3 ==
    /\ Statuses(history) = <<503, 503, 200>>
          => pc = "fetched" /\ outcome = Returned(200)
    /\ Statuses(history) = <<503, 503>> => pc = "fetch"
    /\ (history # <<>> /\ history[1].status = 403)
          => Len(history) = 1 /\ pc = "fetched" /\ outcome = Returned(403)

\* C3 as stated: at most 3 attempts, a further attempt only after a response of
\* status 429, 500, 502, 503 or 504; 503, 503, 200 ends in success after exactly
\* 3 attempts, a 403 ends the fetch after exactly 1.
C3_ThreeAttempts ==
    /\ Len(history) <= 3
    /\ \A i \in 1..(Len(history) - 1) :
          history[i].kind = "response" /\ history[i].status \in ClaimedRetryStatuses
    /\ ExamplesOfC3

\* C3 as amended: at most 4 attempts (the first and 3 retries), a further attempt
\* only after a response of status 429, 500, 502, 503 or 504, a response with a
\* Retry-After header and status 413, 429 or 503, or a connection or read error;
\* the two examples as stated.
C3_FourAttempts ==
    /\ Len(history) <= 4
    /\ \A i \in 1..(Len(history) - 1) :
          \/ history[i].kind = "error"
          \/ history[i].kind = "response" /\ history[i].status \in ClaimedRetryStatuses
          \/ history[i].kind = "response" /\ history[i].retry_after
                /\ history[i].status \in {413, 429, 503}
    /\ ExamplesOfC3

\* three 503 and then a 200: the fourth attempt succeeds
C3_Witness ==
    /\ Statuses(history) = <<503, 503, 503, 200>>
    /\ pc = "fetched"
    /\ outcome = Returned(200)

-----------------------------------------------------------------------------
(* Claims about the decoder *)

IsKept(e) == e.segs.some /\ ~IsBlank(JoinUtf8(e.segs.val))

MsOf(field) == IF field.some THEN field.val ELSE 0

IsSeconds(sec, ms) == sec.milli \in 0..999 /\ 1000 * sec.whole + sec.milli = ms

\* t is raw without its leading and trailing whitespace
IsTrimOf(t, raw) ==
    /\ t # <<>>
    /\ t[1] \notin Whitespace
    /\ t[Len(t)] \notin Whitespace
    /\ \E k \in 0..(Len(raw) - Len(t)) :
          /\ SubSeq(raw, k + 1, k + Len(t)) = t
          /\ IsBlank(SubSeq(raw, 1, k))
          /\ IsBlank(SubSeq(raw, k + Len(t) + 1, Len(raw)))

DecodedAs(TextOk(_, _)) ==
    (dpc = "done" /\ subtitle_data.has_events) =>
        LET kept == SelectSeq(subtitle_data.events, IsKept)
        IN  /\ Len(transcript) = Len(kept)
            /\ \A i \in 1..Len(kept) :
                  /\ TextOk(transcript[i].text, JoinUtf8(kept[i].segs.val))
                  /\ IsSeconds(transcript[i].start, MsOf(kept[i].tStartMs))
                  /\ IsSeconds(transcript[i].duration, MsOf(kept[i].dDurationMs))

SameText(t, raw) == t = raw

\* C7 as stated: the segments are, in payload order, one per event that has segs
\* and a non-blank concatenation of utf8 fields; the text is that concatenation,
\* start and duration are tStartMs/1000 and dDurationMs/1000, 0 when missing.
C7_TextIsConcatenation == DecodedAs(SameText)

\* C7 as amended: the same, the text being that concatenation without its
\* leading and trailing whitespace.
C7_TextIsTrimmedConcatenation == DecodedAs(IsTrimOf)

\* an event without segs skipped, then "b " at 1500 ms kept as "b"
C7_Witness ==
    /\ dpc = "done"
    /\ Len(subtitle_data.events) = 2
    /\ ~subtitle_data.events[1].segs.some
    /\ Len(transcript) = 1
    /\ JoinUtf8(subtitle_data.events[2].segs.val) = <<"b", " ">>
    /\ transcript[1].text = <<"b">>
    /\ transcript[1].start = [whole |-> 1, milli |-> 500]
    /\ transcript[1].duration = [whole |-> 0, milli |-> 0]

-----------------------------------------------------------------------------
(* Claims about extract_video_id *)

\* a string neither pattern can match: no watch?, youtu.be/ or embed/ in it
Unrelated(u) ==
    \A i \in 1..Len(u) :
        /\ u[i] \notin {Short, Embed}
        /\ ~StartsWith(u, i, <<Watch, "?">>)

\* C8: for every input string and each supported URL shape (watch?v=ID,
\* youtu.be/ID, embed/ID, and watch URLs in which v=ID is preceded or followed by
\* other query parameters) extract_video_id returns the identifier ID; it returns
\* None for a string matching neither pattern; the first pattern is tried before
\* the fallback and the first match wins.
C8_ReturnsIdentifier ==
    upc = "done" =>
        /\ url.shape \in {"watch", "short", "embed"} => parsed = Some(url.id)
        /\ Unrelated(url.text) => parsed = NoneVal
        /\ SearchPrimary(url.text).some => parsed = SearchPrimary(url.text)

-----------------------------------------------------------------------------
(* Claims about extract_items_from_transcript *)

\* the response is a JSON array, bare or inside a fence with or without the tag
EnclosedArray(r) ==
    LET t == StripNewlines(r)
        inner == StripNewlines(DropJsonWord(SubSeq(t, 2, Len(t) - 1)))
    IN  IF Len(t) = 1 /\ IsArray(t[1]) THEN Some(t[1].entries)
        ELSE IF /\ Len(t) >= 3
                /\ t[1] = Fence
                /\ t[Len(t)] = Fence
                /\ Len(inner) = 1
                /\ IsArray(inner[1])
        THEN Some(inner[1].entries)
        ELSE NoneVal

EndsWithSourceLine(notes) ==
    LET line == SourceLine(video_url)
        n == Len(notes)
    IN  \/ notes = line
        \/ /\ n > Len(line) + 1
           /\ SubSeq(notes, n - Len(line) + 1, n) = line
           /\ notes[n - Len(line)] = "\n"

\* what the claim says becomes of the entries, in order
RECURSIVE Claimed(_)
Claimed(entries) ==
    IF entries = <<>> THEN <<>>
    ELSE LET e == Head(entries)
             had == e.notes.some /\ e.notes.val.j = "str" /\ e.notes.val.s # <<>>
         IN  IF e.kind = "object" /\ e.name.some
             THEN << [name |-> e.name.val.s,
                      notes |-> IF had THEN e.notes.val.s \o <<"\n", "\n", "Source: ">> \o video_url
                                ELSE <<"Source: ">> \o video_url] >> \o Claimed(Tail(entries))
             ELSE IF e.kind = "string"
             THEN << [name |-> e.val, notes |-> <<"Source: ">> \o video_url] >>
                  \o Claimed(Tail(entries))
             ELSE Claimed(Tail(entries))

\* C9: for every model response that parses as a JSON array, after an enclosing
\* code fence and language tag are removed, every item extract_items_from_transcript
\* returns has the form {name, notes} with notes ending in the line
\* "Source: <video_url>": an object entry with a name keeps its notes followed by
\* that line (the notes being just that line when the entry had none), and a bare
\* string entry becomes an item with that name and notes equal to that line.
C9_NotesEndWithSource ==
    (ipc = "done" /\ api = "returns") =>
        /\ \A i \in 1..Len(extracted.items) : EndsWithSourceLine(extracted.items[i].notes)
        /\ EnclosedArray(response).some =>
               /\ extracted.raised = ""
               /\ extracted.items = Claimed(EnclosedArray(response).val)

\* fence, json, newline, an array of an entry with notes and a string, newline, fence
C9_Witness ==
    /\ ipc = "done"
    /\ api = "returns"
    /\ response = <<Fence, JsonWord, Newline,
                    Array(<<JObject(Some(JStr(<<"X">>)), Some(JStr(<<"n">>))),
                            JString(<<"Y">>)>>),
                    Newline, Fence>>
    /\ Len(extracted.items) = 2
    /\ extracted.items[1].notes = <<"n", "\n", "\n", "Source: ">> \o video_url
    /\ extracted.items[2] = [name |-> <<"Y">>, notes |-> <<"Source: ">> \o video_url]

-----------------------------------------------------------------------------
(* Claims about the session state *)

\* C10: every Extract Transcript action submitted with a non-empty URL replaces
\* the session state wholesale: afterwards transcript text and video id are the new
\* video's values on success and both cleared on any failure, a URL from which no
\* identifier is parsed included; the extracted items are cleared, and the cached
\* personal lists hold no value from before the action.
C10_ReplacedWholesale ==
    (last.action = "Extract Transcript" /\ last.url_input # <<>>) =>
        /\ IF last.result.success
           THEN /\ transcript_text =
                       Some(format_transcript(last.result.transcript, last.include_timestamps))
                /\ video_id = VideoIdOf[last.url_input]
           ELSE /\ transcript_text = NoneVal
                /\ video_id = NoneVal
        /\ extracted_items = NoneVal
        /\ personal_lists = NoneVal \/ last.lists_fetched

\* the notes end with the line "Source: " and the watch URL of the video id
NamesVideo(notes, id) ==
    LET line == SourceLine(VideoUrl(id))
        n == Len(notes)
    IN  \/ notes = line
        \/ /\ n > Len(line) + 1
           /\ SubSeq(notes, n - Len(line) + 1, n) = line
           /\ notes[n - Len(line)] = "\n"

\* C11: in every session state reachable by any sequence of UI actions (Extract
\* Transcript with a valid, invalid or empty URL and a successful or failed fetch;
\* Extract Items succeeding or raising; Save succeeding or failing) the session
\* holds extracted items only while it also holds a transcript and a video id,
\* the items were extracted from exactly that transcript, and the Source URL in
\* their notes names the video id held.
C11_ItemsBelongToTranscript ==
    extracted_items.some =>
        /\ transcript_text.some
        /\ video_id.some
        /\ extracted_from = Some([transcript_text |-> transcript_text.val,
                                  video_id |-> video_id.val])
        /\ \A i \in 1..Len(extracted_items.val) :
               NamesVideo(extracted_items.val[i].notes, video_id.val)

\* items of the second video are still held after a Save that failed, the
\* transcript file of an earlier video being on disk
C11_Witness ==
    /\ last.action = "Save"
    /\ extracted_items.some
    /\ extracted_items.val # <<>>
    /\ video_id = Some(<<"a", "b">>)
    /\ <<"a">> \in files
    /\ NamesVideo(extracted_items.val[1].notes, <<"a", "b">>)

=============================================================================
